---- MODULE Spec2Model ----
(***************************************************************************)
(* Model of the dashboard block store and its HTTP handlers: the           *)
(* TypeScript routes (server/routes.ts over the drizzle storage class) and *)
(* the legacy SQL routes (routes/applet/dashboards/api.js).                *)
(*                                                                         *)
(* Spec      every handler runs to completion before the next starts       *)
(* SpecConc  block-creating handlers interleave at their awaits            *)
(* SpecFail  the same inserts, whose storage calls may reject              *)
(* SpecChat  the Epesi Agent chat route                                    *)
(* SpecTurn  the AIBlock generation turn and the block chat history        *)
(* SpecConvert the AIBlock asked to convert the chart of its block         *)
(* SpecHistory the block chat history: rows added, loaded and deleted      *)
(* SpecRender the clients' conversions of a chart payload to a series      *)
(* SpecGateway the generation endpoints given the backend's completion     *)
(* SpecPersist the routes that write a chart into a block or its history   *)
(***************************************************************************)
EXTENDS FiniteSets, Integers, Sequences, TLC

VARIABLES
    blocks,        \* the blocks table: id -> [dashboardId, position, content]
    nextBlockId,   \* the next fresh block id (ids are time+random strings)
    last,          \* the last handler that ran, its request and its response
    reqs,          \* SpecConc: the in-flight block-creating requests
    conversations, \* the epesi_conversations table: id -> row
    messages,      \* the epesi_messages table, in insertion (serial id) order
    chatHistory,   \* the block_chat_history table, in insertion order
    clock,         \* the database clock behind defaultNow() / new Date()
    turn,          \* the AIBlock generation turn that ended last
    payloads,      \* SpecRender: the chart payloads the client is given to draw
    rendered,      \* SpecRender: the component that drew them and its series
    completion,    \* the text the generation backend answered with
    reply,         \* the last answer of a generation endpoint
    modal,         \* the Smart Insights modal: its step, insights and toast
    agent          \* the last chat request: its prompt, whether the generation
                   \* backend was called, and what the route answered

vars == <<blocks, nextBlockId, last, reqs, conversations, messages,
          chatHistory, clock, turn, payloads, rendered, completion, reply, modal,
          agent>>

chartVars == <<payloads, rendered>>

gateVars == <<completion, reply, modal>>

chatVars == <<conversations, messages, chatHistory, clock, turn, chartVars,
              gateVars, agent>>

storeVars == <<blocks, nextBlockId, last, reqs, conversations, messages,
               chatHistory, clock, turn, agent>>

----------------------------------------------------------------------------
(* Bounds *)

MaxBlocks == 3      \* block ids ever created in one behaviour
MaxPos == 3         \* largest position a request body carries
MaxOrderLen == 3    \* longest blockOrder array of a reorder request
NumDashboards == 2  \* rows of the dashboards table
MaxRequests == 2    \* block-creating requests in flight together
MaxClock == 9       \* database clock ticks in one behaviour
MaxHistory == 2     \* rows of block_chat_history at one time
MaxSeries == 2      \* labels of one chart payload
NumCharts == 2      \* chart payloads drawn together
MaxInsights == 2    \* insights the generation backend answers with

Dashboards == 1..NumDashboards
\* a request may also name a dashboard that has no row
DashboardIds == 1..(NumDashboards + 1)
BlockIds == 1..MaxBlocks

\* `position` of a request body: absent (undefined) or a number
Undefined == <<>>

----------------------------------------------------------------------------
(* JavaScript values, as the clients' chart code sees a parsed JSON payload.
   A value is a tuple headed by its kind; an object is the sequence of its
   <<key, value>> pairs. TypeError stands for a call that threw. *)

JsUndefined == <<"undefined">>
JsNull == <<"null">>
JsNumber(n) == <<"number", n>>
JsString(str) == <<"string", str>>
JsBoolean(b) == <<"boolean", b>>
JsArray(elements) == <<"array", elements>>
JsObject(entries) == <<"object", entries>>
TypeError == <<"TypeError">>

Kind(x) == x[1]

\* the white space that String.prototype.trim removes
Whitespace == {"\n", " "}

\* the character at place i of a string, counted from 1
CharAt(str, i) == SubSeq(str, i, i)

\* String.prototype.trim on a string
RECURSIVE trimString(_)
trimString(str) ==
    IF Len(str) > 0 /\ CharAt(str, 1) \in Whitespace
    THEN trimString(SubSeq(str, 2, Len(str)))
    ELSE IF Len(str) > 0 /\ CharAt(str, Len(str)) \in Whitespace
    THEN trimString(SubSeq(str, 1, Len(str) - 1))
    ELSE str

UpperCase == "ABCDEFGHIJKLMNOPQRSTUVWXYZ"
LowerCase == "abcdefghijklmnopqrstuvwxyz"

\* the case folding of a regular expression's i flag, on ASCII letters
FoldMap ==
    [c \in {CharAt(UpperCase, k) : k \in 1..Len(UpperCase)} |->
        CharAt(LowerCase, CHOOSE k \in 1..Len(UpperCase) : CharAt(UpperCase, k) = c)]

FoldChar(c) == IF c \in DOMAIN FoldMap THEN FoldMap[c] ELSE c

RECURSIVE FoldCase(_)
FoldCase(str) ==
    IF Len(str) = 0 THEN ""
    ELSE FoldChar(CharAt(str, 1)) \o FoldCase(SubSeq(str, 2, Len(str)))

Nullish(x) == Kind(x) \in {"undefined", "null"}

\* typeof x
typeof(x) == IF Kind(x) \in {"null", "array"} THEN "object" ELSE Kind(x)

\* Array.isArray(x)
isArray(x) == Kind(x) = "array"

\* ToBoolean(x), as `if (x)`, `!x`, `x && y` and `x || y` apply it
Truthy(x) ==
    CASE Nullish(x) -> FALSE
      [] Kind(x) = "number" -> x[2] # 0
      [] Kind(x) = "string" -> x[2] # ""
      [] Kind(x) = "boolean" -> x[2]
      [] OTHER -> TRUE

\* x || y
Or(x, y) == IF Truthy(x) THEN x ELSE y

\* `name in x` for an object or an array x
HasProperty(x, name) ==
    CASE Kind(x) = "object" -> \E i \in DOMAIN x[2] : x[2][i][1] = name
      [] Kind(x) = "array" -> name = "length"
      [] OTHER -> FALSE

\* x.name: reading a property of undefined or null throws
Get(x, name) ==
    CASE Nullish(x) -> TypeError
      [] Kind(x) = "object" ->
            IF HasProperty(x, name)
            THEN x[2][CHOOSE i \in DOMAIN x[2] : x[2][i][1] = name][2]
            ELSE JsUndefined
      [] Kind(x) \in {"array", "string"} ->
            IF name = "length" THEN JsNumber(Len(x[2])) ELSE JsUndefined
      [] OTHER -> JsUndefined

\* x?.name
OptGet(x, name) == IF Nullish(x) THEN JsUndefined ELSE Get(x, name)

\* x[i] for a number i, counted from 0
Index(x, i) ==
    CASE Nullish(x) -> TypeError
      [] Kind(x) = "array" -> IF i < Len(x[2]) THEN x[2][i + 1] ELSE JsUndefined
      [] Kind(x) = "string" ->
            IF i < Len(x[2]) THEN JsString(SubSeq(x[2], i + 1, i + 1))
            ELSE JsUndefined
      [] OTHER -> JsUndefined

\* x?.[i]
OptIndex(x, i) == IF Nullish(x) THEN JsUndefined ELSE Index(x, i)

\* x > 0 for the values above: null counts as 0, undefined and text that
\* is no number as NaN
GreaterThanZero(x) == Kind(x) = "number" /\ x[2] > 0

\* {...x, name: value}
Put(x, name, value) ==
    IF HasProperty(x, name)
    THEN JsObject([i \in DOMAIN x[2] |->
                     IF x[2][i][1] = name THEN <<name, value>> ELSE x[2][i]])
    ELSE JsObject(Append(x[2], <<name, value>>))

\* the Recharts entry {name, value}
Entry(name, value) == JsObject(<<<<"name", name>>, <<"value", value>>>>)

\* labels.map((label, index) => ({name: label, value: values[index] || 0})):
\* only an array has map, and values[index] is read once per label
MapLabels(labels, values) ==
    IF ~isArray(labels) THEN TypeError
    ELSE IF Len(labels[2]) = 0 THEN JsArray(<<>>)
    ELSE IF Nullish(values) THEN TypeError
    ELSE JsArray([i \in 1..Len(labels[2]) |->
                    Entry(labels[2][i], Or(Index(values, i - 1), JsNumber(0)))])

\* the shapes of a chart payload

\* labels "Q1".."Qn"
ChartLabels(n) == [i \in 1..n |-> JsString("Q" \o ToString(i))]

\* {labels, datasets: [{data}]}
LabeledSeries(labels, data) ==
    JsObject(<<<<"labels", JsArray(labels)>>,
               <<"datasets", JsArray(<<JsObject(<<<<"data", JsArray(data)>>>>)>>)>>>>)

\* {xAxis: {categories}, series: [{data}]}
CategorySeries(categories, data) ==
    JsObject(<<<<"xAxis", JsObject(<<<<"categories", JsArray(categories)>>>>)>>,
               <<"series", JsArray(<<JsObject(<<<<"data", JsArray(data)>>>>)>>)>>>>)

\* [{name, value}, ...]
CanonicalSeries(labels, data) ==
    JsArray([i \in 1..Len(labels) |-> Entry(labels[i], data[i])])

----------------------------------------------------------------------------
(* The blocks table *)

BlocksOf(B, d) == {id \in DOMAIN B : B[id].dashboardId = d}

PositionsOf(B, d) == {B[id].position : id \in BlocksOf(B, d)}

\* positions of dashboard d are exactly 0..N-1, no two blocks sharing one
Dense(B, d) ==
    /\ PositionsOf(B, d) = 0..(Cardinality(BlocksOf(B, d)) - 1)
    /\ \A a, b \in BlocksOf(B, d) : B[a].position = B[b].position => a = b

\* the content column's default, {}
NoContent == JsObject(<<>>)

\* storage.createBlock / INSERT INTO blocks
CreateBlock(B, id, d, p, c) ==
    [x \in DOMAIN B \cup {id} |->
        IF x = id THEN [dashboardId |-> d, position |-> p, content |-> c]
        ELSE B[x]]

\* storage.updateBlock(id, {position: p}): no row, no change
UpdateBlockPosition(B, id, p) ==
    [x \in DOMAIN B |-> IF x = id THEN [B[x] EXCEPT !.position = p] ELSE B[x]]

\* storage.deleteBlock / DELETE FROM blocks WHERE id
DeleteBlock(B, id) == [x \in DOMAIN B \ {id} |-> B[x]]

\* UPDATE blocks SET position = position + k WHERE dashboard_id = d AND lo <= position <= hi
ShiftRange(B, d, lo, hi, k) ==
    [x \in DOMAIN B |->
        IF B[x].dashboardId = d /\ B[x].position >= lo /\ B[x].position <= hi
        THEN [B[x] EXCEPT !.position = B[x].position + k]
        ELSE B[x]]

\* reorderBlocks' loop from index i on: row blockOrder[i] of dashboard d gets
\* position i (0-based); an id with no such row updates nothing
RECURSIVE ReorderFrom(_, _, _, _)
ReorderFrom(B, d, blockOrder, i) ==
    IF i > Len(blockOrder) THEN B
    ELSE ReorderFrom(
            IF blockOrder[i] \in BlocksOf(B, d)
            THEN UpdateBlockPosition(B, blockOrder[i], i - 1)
            ELSE B,
            d, blockOrder, i + 1)

reorderBlocks(B, d, blockOrder) == ReorderFrom(B, d, blockOrder, 1)

\* the blockOrder arrays a request may carry: any ids, repeated or foreign
BlockOrders ==
    UNION {[1..n -> BlockIds] : n \in 0..MaxOrderLen}

\* SELECT MAX(position): the set is empty (NULL) or holds the maximum
MaxPosition(B, d) ==
    {p \in PositionsOf(B, d) : \A q \in PositionsOf(B, d) : q <= p}

\* (maxPositionResult?.max_pos || -1) + 1 : NULL and 0 are both falsy
NextPositionFromMax(B, d) ==
    IF MaxPosition(B, d) = {} THEN 0
    ELSE LET m == CHOOSE p \in MaxPosition(B, d) : TRUE
         IN  IF m = 0 THEN 0 ELSE m + 1

\* The positions the clients send: none, or one within the dashboard's
\* current range (0 for a prepend, blocks.length for an append, an index of
\* the list for a move).
Min(a, b) == IF a < b THEN a ELSE b

InsertPositions(B, d) ==
    {Undefined} \cup {<<p>> : p \in 0..Min(Cardinality(BlocksOf(B, d)), MaxPos)}

MovePositions(B, id) ==
    {Undefined} \cup
    {<<p>> : p \in 0..(IF id \in DOMAIN B
                       THEN Min(Cardinality(BlocksOf(B, B[id].dashboardId)) - 1, MaxPos)
                       ELSE 0)}

----------------------------------------------------------------------------
(* Responses *)

\* what the last handler was, the status it answered with and the block it
\* named or created (0: none)
Response(op, status, id) == [op |-> op, status |-> status, id |-> id]

----------------------------------------------------------------------------
(* server/routes.ts, one handler per action, run to completion *)

\* for (const existingBlock of existingBlocks)
\*     updateBlock(existingBlock.id, {position: existingBlock.position + 1})
TsShiftAll(B, d) ==
    [x \in DOMAIN B |->
        IF B[x].dashboardId = d
        THEN [B[x] EXCEPT !.position = B[x].position + 1]
        ELSE B[x]]

\* POST /api/dashboards/:id/blocks
TsCreateDashboardBlock(d, position) ==
    /\ nextBlockId <= MaxBlocks
    /\ LET shifted == IF position = Undefined THEN TsShiftAll(blocks, d) ELSE blocks
           blockPosition == IF position = Undefined THEN 0 ELSE position[1]
       IN  IF d \in Dashboards
           THEN /\ blocks' = CreateBlock(shifted, nextBlockId, d, blockPosition, NoContent)
                /\ nextBlockId' = nextBlockId + 1
                /\ last' = Response("TsCreateDashboardBlock", 200, nextBlockId)
           ELSE \* the dashboard_id foreign key rejects the insert
                /\ blocks' = shifted
                /\ nextBlockId' = nextBlockId
                /\ last' = Response("TsCreateDashboardBlock", 500, 0)
    /\ UNCHANGED <<reqs, chatVars>>

\* POST /api/blocks: the row is inserted as sent; position defaults to 0
\* and content to {}
TsCreateBlockContent(d, position, content) ==
    /\ nextBlockId <= MaxBlocks
    /\ LET blockPosition == IF position = Undefined THEN 0 ELSE position[1]
       IN  IF d \in Dashboards
           THEN /\ blocks' = CreateBlock(blocks, nextBlockId, d, blockPosition, content)
                /\ nextBlockId' = nextBlockId + 1
                /\ last' = Response("TsCreateBlock", 200, nextBlockId)
           ELSE /\ UNCHANGED <<blocks, nextBlockId>>
                /\ last' = Response("TsCreateBlock", 500, 0)
    /\ UNCHANGED <<reqs, chatVars>>

TsCreateBlock(d, position) == TsCreateBlockContent(d, position, NoContent)

\* content of a block made by POST /api/ai/generate-block
GeneratedContent ==
    JsObject(<<<<"prompt", JsString("prompt")>>, <<"generatedAt", JsString("now")>>>>)

\* POST /api/ai/generate-block: storage.createBlock({..., position: 0}); no
\* other row is read or written
TsGenerateBlock(d) ==
    /\ nextBlockId <= MaxBlocks
    /\ IF d \in Dashboards
       THEN /\ blocks' = CreateBlock(blocks, nextBlockId, d, 0, GeneratedContent)
            /\ nextBlockId' = nextBlockId + 1
            /\ last' = Response("TsGenerateBlock", 200, nextBlockId)
       ELSE /\ UNCHANGED <<blocks, nextBlockId>>
            /\ last' = Response("TsGenerateBlock", 500, 0)
    /\ UNCHANGED <<reqs, chatVars>>

\* the Epesi Agent modal's addBlockMutation: POST /api/dashboards/:id/blocks
\* with {type: 'ai', ..., size: 4, position: 0}
addBlockMutation(d) == TsCreateDashboardBlock(d, <<0>>)

\* PUT /api/blocks/:id and PATCH /api/blocks/:id: updateBlock(id, req.body)
TsUpdateBlock(id, position) ==
    /\ IF id \in DOMAIN blocks
       THEN /\ blocks' = IF position = Undefined THEN blocks
                         ELSE UpdateBlockPosition(blocks, id, position[1])
            /\ last' = Response("TsUpdateBlock", 200, id)
       ELSE /\ blocks' = blocks
            /\ last' = Response("TsUpdateBlock", 404, id)
    /\ UNCHANGED <<nextBlockId, reqs, chatVars>>

\* PATCH /api/blocks/:id: updateBlock(id, req.body), whatever the body names
TsPatchBlock(id, position) ==
    /\ IF id \in DOMAIN blocks
       THEN /\ blocks' = IF position = Undefined THEN blocks
                         ELSE UpdateBlockPosition(blocks, id, position[1])
            /\ last' = Response("TsPatchBlock", 200, id)
       ELSE /\ blocks' = blocks
            /\ last' = Response("TsPatchBlock", 404, id)
    /\ UNCHANGED <<nextBlockId, reqs, chatVars>>

\* DELETE /api/blocks/:id
TsDeleteBlock(id) ==
    /\ blocks' = DeleteBlock(blocks, id)
    /\ last' = Response("TsDeleteBlock", 200, id)
    /\ UNCHANGED <<nextBlockId, reqs, chatVars>>

\* PUT /api/dashboards/:id/blocks/reorder
TsReorderBlocks(d, blockOrder) ==
    /\ blocks' = reorderBlocks(blocks, d, blockOrder)
    /\ last' = Response("TsReorderBlocks", 200, 0)
    /\ UNCHANGED <<nextBlockId, reqs, chatVars>>

----------------------------------------------------------------------------
(* routes/applet/dashboards/api.js, one handler per action, run to completion *)

\* POST /dashboards/:dashboardId/blocks
LegacyCreateBlock(d, position) ==
    /\ nextBlockId <= MaxBlocks
    /\ IF d \notin Dashboards
       THEN /\ UNCHANGED <<blocks, nextBlockId>>
            /\ last' = Response("LegacyCreateBlock", 404, 0)
       ELSE LET blockPosition == IF position = Undefined
                                 THEN NextPositionFromMax(blocks, d)
                                 ELSE position[1]
                shifted == IF position = Undefined THEN blocks
                           ELSE ShiftRange(blocks, d, blockPosition,
                                           MaxPos + MaxBlocks, 1)
            IN  /\ blocks' = CreateBlock(shifted, nextBlockId, d, blockPosition, NoContent)
                /\ nextBlockId' = nextBlockId + 1
                /\ last' = Response("LegacyCreateBlock", 201, nextBlockId)
    /\ UNCHANGED <<reqs, chatVars>>

\* PUT /blocks/:id
LegacyUpdateBlock(id, position) ==
    /\ IF id \notin DOMAIN blocks
       THEN /\ blocks' = blocks
            /\ last' = Response("LegacyUpdateBlock", 404, id)
       ELSE LET dashboardId == blocks[id].dashboardId
                oldPosition == blocks[id].position
                newPosition == position[1]
                shifted ==
                    IF position = Undefined \/ newPosition = oldPosition THEN blocks
                    ELSE IF newPosition > oldPosition
                    THEN ShiftRange(blocks, dashboardId, oldPosition + 1, newPosition, -1)
                    ELSE ShiftRange(blocks, dashboardId, newPosition, oldPosition - 1, 1)
            IN  /\ blocks' = IF position = Undefined THEN shifted
                             ELSE UpdateBlockPosition(shifted, id, newPosition)
                /\ last' = Response("LegacyUpdateBlock", 200, id)
    /\ UNCHANGED <<nextBlockId, reqs, chatVars>>

\* DELETE /blocks/:id
LegacyDeleteBlock(id) ==
    /\ IF id \notin DOMAIN blocks
       THEN /\ blocks' = blocks
            /\ last' = Response("LegacyDeleteBlock", 404, id)
       ELSE /\ blocks' = DeleteBlock(blocks, id)
            /\ last' = Response("LegacyDeleteBlock", 200, id)
    /\ UNCHANGED <<nextBlockId, reqs, chatVars>>

\* PUT /dashboards/:dashboardId/blocks/reorder
LegacyReorderBlocks(d, blockOrder) ==
    /\ IF d \notin Dashboards
       THEN /\ blocks' = blocks
            /\ last' = Response("LegacyReorderBlocks", 404, 0)
       ELSE /\ blocks' = reorderBlocks(blocks, d, blockOrder)
            /\ last' = Response("LegacyReorderBlocks", 200, 0)
    /\ UNCHANGED <<nextBlockId, reqs, chatVars>>

----------------------------------------------------------------------------
(* server/routes.ts POST /api/dashboards/:id/blocks, one step per awaited
   storage call, so that requests interleave as the event loop lets them *)

Requests == 1..MaxRequests

IdleRequest ==
    [pc |-> "idle", dashboardId |-> 0, position |-> Undefined,
     existingBlocks |-> {}, id |-> 0, alone |-> TRUE, startedDense |-> TRUE]

InProgress(r) == reqs[r].pc \in {"shift", "create"}

\* a request that starts while others run is not alone, and neither are they
Joined(r) ==
    [x \in Requests |->
        IF x # r /\ InProgress(x) /\ reqs[x].alone
        THEN [reqs[x] EXCEPT !.alone = FALSE]
        ELSE reqs[x]]

\* the handler up to its first storage call: with no position in the body,
\* await storage.getBlocksByDashboard(dashboardId); with one, nothing is read
TsInsertBegin(r, d, position) ==
    /\ ~InProgress(r)
    /\ nextBlockId <= MaxBlocks
    /\ LET existingBlocks ==
               IF position = Undefined
               THEN {[id |-> b, position |-> blocks[b].position] : b \in BlocksOf(blocks, d)}
               ELSE {}
       IN  reqs' = [Joined(r) EXCEPT ![r] =
                       [pc |-> IF existingBlocks = {} THEN "create" ELSE "shift",
                        dashboardId |-> d,
                        position |-> position,
                        existingBlocks |-> existingBlocks,
                        id |-> 0,
                        alone |-> \A x \in Requests \ {r} : ~InProgress(x),
                        startedDense |-> Dense(blocks, d)]]
    /\ UNCHANGED <<blocks, nextBlockId, last, chatVars>>

\* one turn of the loop: await storage.updateBlock(existingBlock.id,
\* {position: existingBlock.position + 1}), in the order the read returned
\* (ascending position), with the position that was read
TsInsertShift(r) ==
    /\ reqs[r].pc = "shift"
    /\ \E existingBlock \in reqs[r].existingBlocks :
          /\ \A e \in reqs[r].existingBlocks : existingBlock.position <= e.position
          /\ blocks' = IF existingBlock.id \in DOMAIN blocks
                       THEN UpdateBlockPosition(blocks, existingBlock.id,
                                                existingBlock.position + 1)
                       ELSE blocks
          /\ LET rest == reqs[r].existingBlocks \ {existingBlock}
             IN  reqs' = [reqs EXCEPT ![r].existingBlocks = rest,
                                      ![r].pc = IF rest = {} THEN "create" ELSE "shift"]
    /\ UNCHANGED <<nextBlockId, last, chatVars>>

\* the storage call that the request is waiting for rejects: the catch
\* answers 500, and what the earlier calls wrote stays written
TsInsertFail(r) ==
    /\ InProgress(r)
    /\ \A b \in DOMAIN blocks : blocks[b].position <= MaxPos
    /\ reqs' = [reqs EXCEPT ![r].pc = "failed"]
    /\ last' = Response("TsCreateDashboardBlock", 500, 0)
    /\ UNCHANGED <<blocks, nextBlockId, chatVars>>

\* await storage.createBlock({..., position: blockPosition}); res.json(block)
TsInsertCreate(r) ==
    /\ reqs[r].pc = "create"
    /\ nextBlockId <= MaxBlocks
    /\ LET d == reqs[r].dashboardId
           blockPosition == IF reqs[r].position = Undefined THEN 0
                            ELSE reqs[r].position[1]
       IN  IF d \in Dashboards
           THEN /\ blocks' = CreateBlock(blocks, nextBlockId, d, blockPosition, NoContent)
                /\ nextBlockId' = nextBlockId + 1
                /\ reqs' = [reqs EXCEPT ![r].pc = "done", ![r].id = nextBlockId]
                /\ last' = Response("TsCreateDashboardBlock", 200, nextBlockId)
           ELSE /\ UNCHANGED <<blocks, nextBlockId>>
                /\ reqs' = [reqs EXCEPT ![r].pc = "failed"]
                /\ last' = Response("TsCreateDashboardBlock", 500, 0)
    /\ UNCHANGED chatVars

----------------------------------------------------------------------------
(* The Epesi Agent chat route, server/routes.ts POST /api/epesi-agent/chat *)

Prompts == {"hello", "sales by region"}

\* /^(hi|hello|hey|good morning|good afternoon|good evening|what's up|
\*    how are you|what can you do|help)$/i on the trimmed prompt
GreetingPhrases ==
    {"hi", "hello", "hey", "good morning", "good afternoon", "good evening",
     "what's up", "how are you", "what can you do", "help"}

\* a test that tells the letters' case apart
isGreetingCaseSensitive(prompt) == trimString(prompt) \in GreetingPhrases
\* the regular expression matches when the whole trimmed prompt is one of the
\* phrases, letter by letter, the case of a letter disregarded
isGreeting(prompt) ==
    LET trimmed == trimString(prompt)
    IN  \E phrase \in GreetingPhrases :
           /\ Len(trimmed) = Len(phrase)
           /\ \A i \in 1..Len(phrase) : FoldChar(CharAt(trimmed, i)) = CharAt(phrase, i)

\* the prompts the chat route is sent: also one of 50 and one of 51
\* characters, at the title's limit and just over it, and a greeting in
\* capitals with white space around it
ChatPrompts ==
    Prompts \cup
    {"Show units sold per store for the last nine months",
     "Show units sold per store for the last seven months",
     " Hello\n"}

\* the generation backend answers or throws
GenerationOutcomes == {"ok", "error"}

\* the chart configurations the backend may produce: {type, data: {labels,
\* datasets: [{data}]}}
ChartTypes == {"bar", "pie"}

ChartConfig(type, data) ==
    JsObject(<<<<"type", JsString(type)>>, <<"data", data>>>>)

ChartConfigs ==
    {ChartConfig(type, LabeledSeries(ChartLabels(1), <<value>>)) :
        type \in ChartTypes, value \in {JsNumber(100), JsNumber(200)}}

Charts ==
    {ChartConfig("bar", LabeledSeries(ChartLabels(1), <<JsNumber(100)>>)),
     ChartConfig("pie", LabeledSeries(ChartLabels(1), <<JsNumber(200)>>))}

ConversationIds == 1..(Cardinality(DOMAIN conversations) + 1)

\* storage.createEpesiConversation: created_at and updated_at defaultNow()
createEpesiConversation(C, id, d, conversationTitle, now) ==
    [x \in DOMAIN C \cup {id} |->
        IF x = id THEN [dashboardId |-> d, title |-> conversationTitle,
                        createdAt |-> now, updatedAt |-> now]
        ELSE C[x]]

\* the 50 of `prompt.length > 50` and of `prompt.substring(0, 50)`
TitleLimit == 50

\* a title that already truncates a prompt of exactly the limit
titleOffByOne(prompt) ==
    IF Len(prompt) >= TitleLimit
    THEN SubSeq(prompt, 1, TitleLimit) \o "..."
    ELSE prompt
\* const title = prompt.length > 50 ? prompt.substring(0, 50) + "..." : prompt
title(prompt) ==
    IF Len(prompt) > TitleLimit
    THEN SubSeq(prompt, 1, TitleLimit) \o "..."
    ELSE prompt

\* storage.updateEpesiConversation: set({...updates, updatedAt: new Date()})
updateEpesiConversation(C, id, now) ==
    [x \in DOMAIN C |-> IF x = id THEN [C[x] EXCEPT !.updatedAt = now] ELSE C[x]]

\* storage.createEpesiMessage: created_at defaultNow(); the parent row is
\* not touched
createEpesiMessage(M, conversationId, role, content, now) ==
    Append(M, [conversationId |-> conversationId, role |-> role,
               content |-> content, createdAt |-> now])

\* a lookup that answers with a blank row where there is none
getEpesiConversationOrBlank(C, id) ==
    IF id \in DOMAIN C THEN <<C[id]>>
    ELSE <<[dashboardId |-> 0, title |-> "", createdAt |-> 0, updatedAt |-> 0]>>
\* storage.getEpesiConversation: the row, or undefined
getEpesiConversation(C, id) == IF id \in DOMAIN C THEN <<C[id]>> ELSE Undefined

\* what the route answered: the prompt it was sent, whether it called
\* generateEpesiAgentResponse, and the message (of an error) or the response
\* and charts of its JSON body
Answer(prompt, called, message, response, charts) ==
    [prompt |-> prompt, called |-> called, message |-> message,
     response |-> response, charts |-> charts]

NoAnswer == Answer("none", FALSE, "none", "none", <<>>)

\* the charts of a response of generateEpesiAgentResponse
GeneratedCharts ==
    <<ChartConfig("bar", LabeledSeries(ChartLabels(1), <<JsNumber(100)>>))>>

\* The handler, run to completion. conversationId is <<>> when the body has
\* none. Each storage call happens at its own tick of the database clock.
EpesiAgentChat(prompt, dashboardId, conversationId, outcome) ==
    /\ clock + 4 <= MaxClock
    /\ IF dashboardId \notin Dashboards
       THEN /\ UNCHANGED <<conversations, messages, clock>>
            /\ last' = Response("EpesiAgentChat", 404, 0)
            /\ agent' = Answer(prompt, FALSE, "Dashboard not found", "none", <<>>)
       ELSE IF /\ conversationId # <<>>
               /\ getEpesiConversation(conversations, conversationId[1]) = Undefined
       THEN /\ UNCHANGED <<conversations, messages, clock>>
            /\ last' = Response("EpesiAgentChat", 404, 0)
            /\ agent' = Answer(prompt, FALSE, "Conversation not found", "none", <<>>)
       ELSE LET isNew == conversationId = <<>>
                id == IF isNew THEN Cardinality(DOMAIN conversations) + 1
                      ELSE conversationId[1]
                C1 == IF isNew
                      THEN createEpesiConversation(conversations, id, dashboardId,
                                                   title(prompt), clock)
                      ELSE conversations
                t1 == IF isNew THEN clock + 1 ELSE clock
                M1 == createEpesiMessage(messages, id, "user", prompt, t1)
            IN  IF isGreeting(prompt)
                THEN /\ conversations' = C1
                     /\ messages' = createEpesiMessage(M1, id, "assistant", "greeting", t1 + 1)
                     /\ clock' = t1 + 2
                     /\ last' = Response("EpesiAgentChat", 200, 0)
                     /\ agent' = Answer(prompt, FALSE, "none", "greeting", <<>>)
                ELSE IF outcome = "ok"
                THEN /\ messages' = createEpesiMessage(M1, id, "assistant", "charts", t1 + 1)
                     /\ conversations' = updateEpesiConversation(C1, id, t1 + 2)
                     /\ clock' = t1 + 3
                     /\ last' = Response("EpesiAgentChat", 200, 0)
                     /\ agent' = Answer(prompt, TRUE, "none", "charts", GeneratedCharts)
                ELSE \* generateEpesiAgentResponse threw: the catch answers 500
                     /\ conversations' = C1
                     /\ messages' = M1
                     /\ clock' = t1 + 1
                     /\ last' = Response("EpesiAgentChat", 500, 0)
                     /\ agent' = Answer(prompt, TRUE, "Failed to process your request",
                                        "none", <<>>)
    /\ UNCHANGED <<blocks, nextBlockId, reqs, chatHistory, turn, chartVars, gateVars>>

----------------------------------------------------------------------------
(* Block chat history, server/routes.ts /api/blocks/:blockId/chat-history *)

\* POST /api/blocks/:blockId/chat-history: block_id references blocks.id;
\* the row's id is made of the time of the request
CreateBlockChatHistory(blockId, question, chartData) ==
    /\ Len(chatHistory) < MaxHistory
    /\ clock < MaxClock
    /\ IF blockId \in DOMAIN blocks
       THEN /\ chatHistory' = Append(chatHistory,
                                     [id |-> clock, blockId |-> blockId,
                                      question |-> question,
                                      chartData |-> chartData, generatedAt |-> clock])
            /\ clock' = clock + 1
            /\ last' = Response("CreateBlockChatHistory", 200, blockId)
       ELSE /\ UNCHANGED <<chatHistory, clock>>
            /\ last' = Response("CreateBlockChatHistory", 500, blockId)
    /\ UNCHANGED <<blocks, nextBlockId, reqs, conversations, messages, turn,
                   chartVars, gateVars, agent>>

\* a delete that takes every row of the named row's block with it
deleteBlockChatHistoryOfBlock(H, id) ==
    SelectSeq(H, LAMBDA row : \A other \in {H[i] : i \in DOMAIN H} :
                                 other.id = id => row.blockId # other.blockId)
\* storage.deleteBlockChatHistory: DELETE FROM block_chat_history WHERE id
deleteBlockChatHistory(H, id) == SelectSeq(H, LAMBDA row : row.id # id)

\* the ids a delete request may name: those of rows made so far, or of none
HistoryIds == 1..MaxClock

\* DELETE /api/blocks/chat-history/:id
DeleteBlockChatHistory(id) ==
    /\ chatHistory' = deleteBlockChatHistory(chatHistory, id)
    /\ last' = Response("DeleteBlockChatHistory", 200, 0)
    /\ UNCHANGED <<blocks, nextBlockId, reqs, conversations, messages, clock, turn,
                   chartVars, gateVars, agent>>

----------------------------------------------------------------------------
(* The AIBlock generation turn, client/src/components/draggable-toolbar.tsx
   (generateChartMutation) over client/src/lib/queryClient.ts (apiRequest) *)

\* apiRequest: throws when the response is not ok, and otherwise returns
\* `await res.json()`, the parsed body (not the Response)
apiRequest(resOk, body) ==
    IF resOk THEN [threw |-> FALSE, kind |-> "parsed body", body |-> body]
    ELSE [threw |-> TRUE, kind |-> "Error", body |-> JsUndefined]

\* `response.json()` in a mutationFn: only a Response has the method; on a
\* parsed body the call throws a TypeError
responseJson(response) ==
    IF response.threw THEN response
    ELSE IF response.kind = "Response"
    THEN [threw |-> FALSE, kind |-> "parsed body", body |-> response.body]
    ELSE [threw |-> TRUE, kind |-> "TypeError", body |-> JsUndefined]

\* storage.getBlockChatHistory: the block's rows, orderBy(desc(generatedAt));
\* rows are inserted in the order of their generatedAt
Reverse(seq) == [i \in 1..Len(seq) |-> seq[Len(seq) + 1 - i]]

getBlockChatHistory(blockId) ==
    Reverse(SelectSeq(chatHistory, LAMBDA row : row.blockId = blockId))

\* the 6 of chatHistory.slice(-6)
HistoryLimit == 6

\* const recentHistory = chatHistory.slice(-6).reverse(), over the rows that
\* GET /api/blocks/:blockId/chat-history answered
recentHistory(blockId) ==
    LET rows == getBlockChatHistory(blockId)
        from == IF Len(rows) > HistoryLimit THEN Len(rows) - HistoryLimit + 1 ELSE 1
    IN  Reverse(SubSeq(rows, from, Len(rows)))

\* prompts that ask for the chart at hand in another type
ConversionPrompts == {"convert this to a pie chart", "convert this to a bar chart"}

targetType(prompt) ==
    IF prompt = "convert this to a pie chart" THEN "pie" ELSE "bar"

\* generateChart({prompt, chartType: "auto", context, chatHistory}) of
\* server/openai.ts: asked to convert, with a prior turn in the history it
\* was sent, it answers that turn's data under the new type; otherwise the
\* chart is the backend's
generateChart(prompt, history, fresh) ==
    IF prompt \in ConversionPrompts /\ history # <<>>
    THEN ChartConfig(targetType(prompt), Get(history[1].chartData, "data"))
    ELSE fresh

\* generateChartMutation.mutationFn
generateChartMutationFn(resOk, chartConfig) ==
    responseJson(apiRequest(resOk, chartConfig))

\* generateChartMutation.mutate(prompt) to its end: POST /api/ai/generate-chart
\* answers the chart or 500; onSuccess sends the block update (PUT
\* /api/blocks/:id) and the history entry (POST .../chat-history); onError
\* only shows a toast
AIBlockGenerateChart(blockId, prompt, outcome, chartConfig) ==
    /\ blockId \in DOMAIN blocks
    /\ clock < MaxClock
    /\ LET result == generateChartMutationFn(outcome = "ok", chartConfig)
       IN  IF ~result.threw
           THEN \* onSuccess
                /\ blocks' = [blocks EXCEPT ![blockId].content =
                                 Put(Put(Put(@, "chartData", result.body),
                                         "lastPrompt", JsString(prompt)),
                                     "generatedAt", JsNumber(clock))]
                /\ chatHistory' = Append(chatHistory,
                                         [id |-> clock, blockId |-> blockId,
                                          question |-> prompt,
                                          chartData |-> result.body,
                                          generatedAt |-> clock])
                /\ clock' = clock + 1
                /\ turn' = [blockId |-> blockId, prompt |-> prompt,
                            generated |-> TRUE, chartData |-> chartConfig,
                            ended |-> "onSuccess"]
           ELSE \* onError
                /\ UNCHANGED <<blocks, chatHistory, clock>>
                /\ turn' = [blockId |-> blockId, prompt |-> prompt,
                            generated |-> outcome = "ok",
                            chartData |-> IF outcome = "ok" THEN chartConfig ELSE JsUndefined,
                            ended |-> "onError"]
    /\ last' = Response("GenerateChart", IF outcome = "ok" THEN 200 ELSE 500, blockId)
    /\ UNCHANGED <<nextBlockId, reqs, conversations, messages, chartVars, gateVars,
                   agent>>

\* handleLoadFromHistory(historyItem): onUpdate sends PUT /api/blocks/:id
\* with content {...block.content, chartData, lastPrompt, generatedAt}
handleLoadFromHistory(blockId, i) ==
    /\ blockId \in DOMAIN blocks
    /\ i \in DOMAIN chatHistory
    /\ chatHistory[i].blockId = blockId
    /\ blocks' = [blocks EXCEPT ![blockId].content =
                     Put(Put(Put(@, "chartData", chatHistory[i].chartData),
                             "lastPrompt", JsString(chatHistory[i].question)),
                         "generatedAt", JsNumber(clock))]
    /\ last' = Response("TsUpdateBlock", 200, blockId)
    /\ UNCHANGED <<nextBlockId, reqs, conversations, messages, chatHistory,
                   clock, turn, chartVars, gateVars, agent>>

----------------------------------------------------------------------------
(* client/src/components/draggable-toolbar.tsx, AIBlock *)

\* AIBlock's transformChartData(data)
AIBlock_transformChartData(data) ==
    IF ~Truthy(data) THEN JsArray(<<>>)
    ELSE IF isArray(data) /\ Len(data[2]) > 0 /\ typeof(Index(data, 0)) = "object"
            /\ Index(data, 0) = JsNull
    THEN TypeError      \* 'name' in null
    ELSE IF isArray(data) /\ Len(data[2]) > 0 /\ typeof(Index(data, 0)) = "object"
            /\ HasProperty(Index(data, 0), "name")
    THEN data
    ELSE IF /\ Truthy(Get(data, "labels"))
            /\ Truthy(Get(data, "datasets"))
            /\ GreaterThanZero(Get(Get(data, "datasets"), "length"))
    THEN LET labels == Get(data, "labels")
             values == Get(Index(Get(data, "datasets"), 0), "data")
         IN  IF values = TypeError THEN TypeError ELSE MapLabels(labels, values)
    ELSE IF isArray(data) /\ Len(data[2]) > 0 /\ typeof(Index(data, 0)) = "number"
    THEN JsArray([i \in 1..Len(data[2]) |->
                    Entry(JsString("Item " \o ToString(i)), data[2][i])])
    ELSE JsArray(<<>>)

\* const chartDataToTransform = chartData?.data || chartData;
\* const rechartsData = transformChartData(chartDataToTransform)
AIBlock_rechartsData(chartData) ==
    AIBlock_transformChartData(Or(OptGet(chartData, "data"), chartData))

----------------------------------------------------------------------------
(* client/src/components/smart-insights-modal.tsx *)

\* the modal's transformChartData(chartPayload)
SmartInsights_transformChartData(chartPayload) ==
    IF ~Truthy(chartPayload) THEN JsArray(<<>>)
    ELSE IF Truthy(Get(chartPayload, "labels")) /\ Truthy(Get(chartPayload, "datasets"))
    THEN LET labels == Get(chartPayload, "labels")
             dataset == Index(Get(chartPayload, "datasets"), 0)
         IN  IF ~Truthy(dataset) \/ ~Truthy(Get(dataset, "data"))
             THEN JsArray(<<>>)
             ELSE MapLabels(labels, Get(dataset, "data"))
    ELSE IF /\ Truthy(Get(chartPayload, "series"))
            /\ Truthy(Index(Get(chartPayload, "series"), 0))
    THEN LET series == Index(Get(chartPayload, "series"), 0)
             categories == Or(OptGet(Get(chartPayload, "xAxis"), "categories"),
                              JsArray(<<>>))
             data == Or(Get(series, "data"), JsArray(<<>>))
         IN  MapLabels(categories, data)
    ELSE JsArray(<<>>)

\* the series renderChart draws: the entries with value > 0 when there are
\* any, and all the entries otherwise
renderChart(transformedData) ==
    IF ~isArray(transformedData) THEN transformedData
    ELSE LET nonZeroData ==
                 SelectSeq(transformedData[2],
                           LAMBDA item : GreaterThanZero(Get(item, "value")))
         IN  IF Len(nonZeroData) > 0 THEN JsArray(nonZeroData) ELSE transformedData

----------------------------------------------------------------------------
(* client/src/pages/dashboard-preview.tsx *)

\* convertChartData(chartData)
convertChartData(chartData) ==
    IF \/ ~Truthy(OptGet(OptGet(chartData, "data"), "labels"))
       \/ ~Truthy(OptGet(OptIndex(OptGet(OptGet(chartData, "data"), "datasets"), 0),
                         "data"))
    THEN JsArray(<<>>)
    ELSE MapLabels(Get(Get(chartData, "data"), "labels"),
                   Get(Index(Get(Get(chartData, "data"), "datasets"), 0), "data"))

----------------------------------------------------------------------------
(* The payloads handed to the clients, and the components drawing them *)

\* the values a generated data array holds: a number, null, or text
ChartValues == {JsNumber(7), JsNull, JsString("N/A")}

\* data arrays of at most n entries
DataArrays(n) == UNION {[1..m -> ChartValues] : m \in 0..n}

\* payloads of none of the shapes above
OtherPayloads ==
    {JsNull, JsNumber(5), JsString("chart"), JsObject(<<>>),
     JsArray(<<>>), JsArray(<<JsNull>>), JsArray(<<JsObject(<<>>)>>),
     JsArray(<<JsString("Q1")>>),
     JsObject(<<<<"labels", JsString("Q1")>>,
                <<"datasets", JsArray(<<JsObject(<<<<"data", JsArray(<<JsNumber(7)>>)>>>>)>>)>>>>),
     JsObject(<<<<"labels", JsArray(ChartLabels(1))>>,
                <<"datasets", JsArray(<<JsNull>>)>>>>),
     JsObject(<<<<"labels", JsArray(ChartLabels(1))>>,
                <<"datasets", JsArray(<<JsObject(<<>>)>>)>>>>),
     JsObject(<<<<"xAxis", JsObject(<<<<"categories", JsNumber(5)>>>>)>>,
                <<"series", JsArray(<<JsObject(<<<<"data", JsArray(<<JsNumber(7)>>)>>>>)>>)>>>>)}

ChartPayloads ==
    UNION {{LabeledSeries(ChartLabels(n), data) : data \in DataArrays(n)} \cup
           {CategorySeries(ChartLabels(n), data) : data \in DataArrays(n)} \cup
           {CanonicalSeries(ChartLabels(n), data) : data \in [1..n -> ChartValues]} \cup
           {JsArray(data) : data \in [1..n -> ChartValues]}
           : n \in 1..MaxSeries}
    \cup OtherPayloads

\* a block's content.chartData around a payload: {data, type}
ChartData(payload) ==
    JsObject(<<<<"data", payload>>, <<"type", JsString("bar")>>>>)

NothingRendered == [by |-> "none", data |-> <<>>, chart |-> <<>>]

\* every AIBlock of the dashboard draws its block's chart
AIBlockRender ==
    /\ rendered.by = "none"
    /\ LET data == [i \in DOMAIN payloads |-> AIBlock_rechartsData(ChartData(payloads[i]))]
       IN  rendered' = [by |-> "AIBlock", data |-> data, chart |-> data]
    /\ UNCHANGED <<storeVars, gateVars, payloads>>

\* generateInsightsMutation.onSuccess: every insight's chart_payload is
\* transformed, and renderChart draws it
SmartInsightsRender ==
    /\ rendered.by = "none"
    /\ LET data == [i \in DOMAIN payloads |->
                        SmartInsights_transformChartData(payloads[i])]
       IN  rendered' = [by |-> "SmartInsightsModal", data |-> data,
                        chart |-> [i \in DOMAIN payloads |-> renderChart(data[i])]]
    /\ UNCHANGED <<storeVars, gateVars, payloads>>

\* the preview page's renderChart, for every block of the dashboard
DashboardPreviewRender ==
    /\ rendered.by = "none"
    /\ LET data == [i \in DOMAIN payloads |-> convertChartData(ChartData(payloads[i]))]
       IN  rendered' = [by |-> "DashboardPreview", data |-> data, chart |-> data]
    /\ UNCHANGED <<storeVars, gateVars, payloads>>

----------------------------------------------------------------------------
(* The text a completion carries. A text is the sequence of its tokens: a
   fence of three backticks, the word json, a line break, a bracket, a
   comma, a whole object literal, or a word of prose. *)

\* the token of three backticks
Fence == "fence"

\* String.prototype.trim
RECURSIVE TrimStart(_)
TrimStart(text) ==
    IF text # <<>> /\ Head(text) \in Whitespace THEN TrimStart(Tail(text)) ELSE text

RECURSIVE TrimEnd(_)
TrimEnd(text) ==
    IF text # <<>> /\ text[Len(text)] \in Whitespace
    THEN TrimEnd(SubSeq(text, 1, Len(text) - 1))
    ELSE text

trim(text) == TrimEnd(TrimStart(text))

\* content.replace(/```json\n?|\n?```/g, ''): left to right, at each place
\* the first alternative that matches is removed
RECURSIVE replaceFences(_)
replaceFences(text) ==
    IF text = <<>> THEN <<>>
    ELSE IF Len(text) >= 3 /\ text[1] = Fence /\ text[2] = "json" /\ text[3] = "\n"
    THEN replaceFences(SubSeq(text, 4, Len(text)))
    ELSE IF Len(text) >= 2 /\ text[1] = Fence /\ text[2] = "json"
    THEN replaceFences(SubSeq(text, 3, Len(text)))
    ELSE IF Len(text) >= 2 /\ text[1] = "\n" /\ text[2] = Fence
    THEN replaceFences(SubSeq(text, 3, Len(text)))
    ELSE IF text[1] = Fence
    THEN replaceFences(Tail(text))
    ELSE <<text[1]>> \o replaceFences(Tail(text))

\* the object literals a completion may hold, and the objects they denote
ValidInsightText ==
    "{\"question\":\"Q\",\"description\":\"D\",\"chart_type\":\"bar\",\"chart_payload\":{\"labels\":[\"Q1\"],\"datasets\":[{\"data\":[7]}]}}"
NoPayloadInsightText == "{\"question\":\"Q\",\"description\":\"D\",\"chart_type\":\"bar\"}"
TextPayloadInsightText ==
    "{\"question\":\"Q\",\"description\":\"D\",\"chart_type\":\"bar\",\"chart_payload\":\"none\"}"
ChartConfigText ==
    "{\"chart\":{\"type\":\"column\"},\"title\":{\"text\":\"T\"},\"series\":[{\"data\":[7]}]}"
EmptyObjectText == "{}"

InsightTexts == {ValidInsightText, NoPayloadInsightText, TextPayloadInsightText}

ObjectTexts == InsightTexts \cup {ChartConfigText, EmptyObjectText}

ObjectLiteral(token) ==
    CASE token = ValidInsightText ->
            JsObject(<<<<"question", JsString("Q")>>, <<"description", JsString("D")>>,
                       <<"chart_type", JsString("bar")>>,
                       <<"chart_payload",
                         LabeledSeries(ChartLabels(1), <<JsNumber(7)>>)>>>>)
      [] token = NoPayloadInsightText ->
            JsObject(<<<<"question", JsString("Q")>>, <<"description", JsString("D")>>,
                       <<"chart_type", JsString("bar")>>>>)
      [] token = TextPayloadInsightText ->
            JsObject(<<<<"question", JsString("Q")>>, <<"description", JsString("D")>>,
                       <<"chart_type", JsString("bar")>>,
                       <<"chart_payload", JsString("none")>>>>)
      [] token = ChartConfigText ->
            JsObject(<<<<"chart", JsObject(<<<<"type", JsString("column")>>>>)>>,
                       <<"title", JsObject(<<<<"text", JsString("T")>>>>)>>,
                       <<"series",
                         JsArray(<<JsObject(<<<<"data", JsArray(<<JsNumber(7)>>)>>>>)>>)>>>>)
      [] OTHER -> JsObject(<<>>)

SyntaxError == <<"SyntaxError">>

\* JSON.parse(text): white space between tokens is skipped; the text is one
\* object literal or an array of them, and anything else is a SyntaxError
JSONparse(text) ==
    LET t == SelectSeq(text, LAMBDA token : token \notin Whitespace)
        inner == SubSeq(t, 2, Len(t) - 1)
    IN  IF Len(t) = 1 /\ t[1] \in ObjectTexts THEN ObjectLiteral(t[1])
        ELSE IF Len(t) >= 2 /\ t[1] = "[" /\ t[Len(t)] = "]"
        THEN IF inner = <<>> THEN JsArray(<<>>)
             ELSE IF /\ Len(inner) % 2 = 1
                     /\ \A i \in DOMAIN inner :
                           IF i % 2 = 1 THEN inner[i] \in ObjectTexts ELSE inner[i] = ","
             THEN JsArray([k \in 1..((Len(inner) + 1) \div 2) |->
                             ObjectLiteral(inner[2 * k - 1])])
             ELSE SyntaxError
        ELSE SyntaxError

\* the texts the backend may answer with: a JSON array of at most MaxInsights
\* insights, a chart configuration, an empty object, prose, or nothing; bare,
\* fenced in several ways, padded, or introduced by a line of prose
RECURSIVE Join(_)
Join(items) ==
    IF Len(items) <= 1 THEN items
    ELSE <<items[1], ",">> \o Join(Tail(items))

ArrayText(items) == <<"[">> \o Join(items) \o <<"]">>

JsonBodies ==
    {ArrayText(items) : items \in UNION {[1..n -> InsightTexts] : n \in 0..MaxInsights}}
    \cup {<<ChartConfigText>>, <<EmptyObjectText>>}

Fenced(body) == <<Fence, "json", "\n">> \o body \o <<"\n", Fence>>

CompletionTexts ==
    UNION {{body,
            Fenced(body),
            <<Fence, "json">> \o body \o <<Fence>>,
            <<Fence, "\n">> \o body \o <<"\n", Fence>>,
            <<"\n">> \o body \o <<"\n">>,
            <<"Here", "\n">> \o Fenced(body)} : body \in JsonBodies}
    \cup {<<"Sorry">>, <<>>}

----------------------------------------------------------------------------
(* The generation endpoints: routes/applet/dashboards/api.js POST /ai and
   POST /generate-insights, server/routes.ts POST /api/ai/generate-insights.
   The dashboard has a data source and the API key is set; the backend has
   answered 200 with the variable completion as choices[0].message.content. *)

NoReply == [op |-> "none", status |-> 0, requested |-> 0, synthesis |-> <<>>,
            body |-> JsUndefined]

Reply(op, status, requested, synthesis, body) ==
    [op |-> op, status |-> status, requested |-> requested,
     synthesis |-> synthesis, body |-> body]

\* handleError(res, error), and the TypeScript routes' catch
ErrorBody == JsObject(<<<<"success", JsBoolean(FALSE)>>>>)

\* Math.min(Math.max(parseInt(count), 1), 8)
MinInsightCount == 1
MaxInsightCount == 8
clampCount(count) ==
    IF count < MinInsightCount THEN MinInsightCount
    ELSE IF count > MaxInsightCount THEN MaxInsightCount
    ELSE count

\* POST /ai, from the response's content on: JSON.parse of the content as it
\* came, then UPDATE blocks SET content = JSON.stringify(chartConfig) for the
\* block the request names, then {success: true, data: chartConfig}
LegacyAi(d, blockId) ==
    /\ LET chartConfig == JSONparse(completion)
       IN  IF d \notin Dashboards
           THEN /\ reply' = Reply("LegacyAi", 404, 0, <<>>, ErrorBody)
                /\ blocks' = blocks
           ELSE IF completion = <<>> \/ chartConfig = SyntaxError
           THEN /\ reply' = Reply("LegacyAi", 500, 0, <<>>, ErrorBody)
                /\ blocks' = blocks
           ELSE /\ reply' = Reply("LegacyAi", 200, 0, <<>>,
                                  JsObject(<<<<"success", JsBoolean(TRUE)>>,
                                             <<"data", chartConfig>>>>))
                /\ blocks' = IF blockId \in DOMAIN blocks
                             THEN [blocks EXCEPT ![blockId].content = chartConfig]
                             ELSE blocks
    /\ UNCHANGED <<nextBlockId, last, reqs, conversations, messages, chatHistory,
                   clock, turn, chartVars, completion, modal, agent>>

\* the required fields of one insight: question, description, chart_payload,
\* and chart_payload an object
ValidInsight(insight) ==
    /\ Truthy(Get(insight, "question"))
    /\ Truthy(Get(insight, "description"))
    /\ Truthy(Get(insight, "chart_payload"))
    /\ typeof(Get(insight, "chart_payload")) = "object"

\* {success, data: {insights}, count, message}
InsightsBody(enrichedInsights) ==
    JsObject(<<<<"success", JsBoolean(TRUE)>>,
               <<"data", JsObject(<<<<"insights", JsArray(enrichedInsights)>>>>)>>,
               <<"count", JsNumber(Len(enrichedInsights))>>,
               <<"message", JsString("Generated " \o ToString(Len(enrichedInsights))
                                     \o " smart insights with charts")>>>>)

\* the metadata added to insight number index
Enriched(insight, index) ==
    JsObject(<<<<"id", JsString("insight_" \o ToString(index))>>,
               <<"question", Get(insight, "question")>>,
               <<"description", Get(insight, "description")>>,
               <<"chart_type", Get(insight, "chart_type")>>,
               <<"insight_category", Get(insight, "insight_category")>>,
               <<"chart_payload", Get(insight, "chart_payload")>>>>)

\* POST /generate-insights, from the response's content on
LegacyGenerateInsightsReply(d, count) ==
    LET insightCount == clampCount(count)
        cleanContent == trim(replaceFences(trim(completion)))
        insights == JSONparse(cleanContent)
    IN  IF d \notin Dashboards
        THEN Reply("LegacyGenerateInsights", 404, insightCount, <<>>, ErrorBody)
        ELSE IF \/ completion = <<>>
                \/ insights = SyntaxError
                \/ ~isArray(insights)
                \/ \E i \in DOMAIN insights[2] : ~ValidInsight(insights[2][i])
        THEN Reply("LegacyGenerateInsights", 500, insightCount, <<>>, ErrorBody)
        ELSE Reply("LegacyGenerateInsights", 200, insightCount, <<>>,
                   InsightsBody([i \in DOMAIN insights[2] |->
                                    Enriched(insights[2][i], i)]))

LegacyGenerateInsights(d, count) ==
    /\ reply' = LegacyGenerateInsightsReply(d, count)
    /\ UNCHANGED <<storeVars, chartVars, completion, modal>>

\* generateSmartInsights({insightCount, ...}) of server/openai.ts: the fences
\* are stripped, the text parsed, and the result must be an array of items
\* with their required fields; fewer items than asked for are returned as
\* they are. Thrown stands for its exception.
Thrown == <<"Error">>

generateSmartInsights(insightCount) ==
    LET parsed == JSONparse(trim(replaceFences(trim(completion))))
    IN  IF \/ parsed = SyntaxError
           \/ ~isArray(parsed)
           \/ \E i \in DOMAIN parsed[2] :
                 \/ ~ValidInsight(parsed[2][i])
                 \/ ~Truthy(Get(parsed[2][i], "chart_type"))
        THEN Thrown
        ELSE parsed

\* generateInsights(chartData, question) of server/openai.ts: the sentences
\* synthesized for one chart, or [] when the synthesis failed
SynthesisOutcomes == {"ok", "failed"}

generateInsights(chartData, question, outcome) ==
    IF outcome = "ok" THEN <<JsString("Q1 is the highest")>> ELSE <<>>

\* one turn of insights.map(async (insight, index) => ...)
enrichWithoutFallback(insight, index, chartInsights) ==
    IF Len(chartInsights) > 0
    THEN Put(Enriched(insight, index), "insights", JsArray(chartInsights))
    ELSE Thrown
enrich(insight, index, chartInsights) ==
    Put(Enriched(insight, index), "insights",
        IF Len(chartInsights) > 0 THEN JsArray(chartInsights)
        ELSE JsArray(<<Get(insight, "description")>>))

\* POST /api/ai/generate-insights, from generateSmartInsights on; synthesis
\* holds the outcome of generateInsights for each insight in turn
TsGenerateInsightsReply(d, count, synthesis) ==
    LET insightCount == clampCount(count)
        insights == generateSmartInsights(insightCount)
        chartData(insight) ==
            Or(OptGet(OptIndex(Get(Get(insight, "chart_payload"), "datasets"), 0),
                      "data"),
               JsArray(<<>>))
        enrichedInsights ==
            [i \in DOMAIN insights[2] |->
                enrich(insights[2][i], i,
                       generateInsights(chartData(insights[2][i]),
                                        Get(insights[2][i], "question"),
                                        synthesis[i]))]
    IN  IF d \notin Dashboards
        THEN Reply("TsGenerateInsights", 404, insightCount, <<>>, ErrorBody)
        ELSE IF insights = Thrown
        THEN Reply("TsGenerateInsights", 500, insightCount, <<>>, ErrorBody)
        ELSE IF \E i \in DOMAIN enrichedInsights : enrichedInsights[i] = Thrown
        THEN Reply("TsGenerateInsights", 500, insightCount,
                   SubSeq(synthesis, 1, Len(insights[2])), ErrorBody)
        ELSE Reply("TsGenerateInsights", 200, insightCount,
                   SubSeq(synthesis, 1, Len(insights[2])),
                   InsightsBody(enrichedInsights))

TsGenerateInsights(d, count, synthesis) ==
    /\ reply' = TsGenerateInsightsReply(d, count, synthesis)
    /\ UNCHANGED <<storeVars, chartVars, completion, modal>>

----------------------------------------------------------------------------
(* client/src/components/smart-insights-modal.tsx, generateInsightsMutation *)

ModalClosed == [step |-> "configure", insights |-> <<>>, toast |-> "none"]

\* handleGenerateInsights: setStep('analyzing'), mutate(insightCount); the
\* mutationFn awaits apiRequest and calls response.json() on what it returned;
\* onSuccess keeps the insights with their transformed data, setStep('results')
\* and says how many there are; onError goes back to 'configure'
generateInsightsMutation(d, count, synthesis) ==
    /\ LET response == TsGenerateInsightsReply(d, count, synthesis)
           data == responseJson(apiRequest(response.status = 200, response.body))
       IN  /\ reply' = response
           /\ IF ~data.threw
              THEN LET insights == Get(Get(data.body, "data"), "insights")[2]
                   IN  modal' = [step |-> "results",
                                 insights |->
                                     [i \in DOMAIN insights |->
                                         Put(insights[i], "transformedData",
                                             SmartInsights_transformChartData(
                                                 Get(insights[i], "chart_payload")))],
                                 toast |-> "Generated " \o ToString(Len(insights))
                                           \o " smart insights"]
              ELSE modal' = [step |-> "configure", insights |-> modal.insights,
                             toast |-> "Error"]
    /\ UNCHANGED <<storeVars, chartVars, completion>>

----------------------------------------------------------------------------
(* Specifications *)

Init ==
    /\ blocks = <<>>
    /\ nextBlockId = 1
    /\ last = Response("none", 0, 0)
    /\ reqs = [r \in Requests |-> IdleRequest]
    /\ conversations = <<>>
    /\ messages = <<>>
    /\ chatHistory = <<>>
    /\ clock = 1
    /\ turn = [blockId |-> 0, prompt |-> "none", generated |-> FALSE,
               chartData |-> JsUndefined, ended |-> "none"]
    /\ payloads = <<>>
    /\ rendered = NothingRendered
    /\ completion = <<>>
    /\ reply = NoReply
    /\ modal = ModalClosed
    /\ agent = NoAnswer

Next ==
    \/ \E d \in DashboardIds : \E position \in InsertPositions(blocks, d) :
          TsCreateDashboardBlock(d, position)
    \/ \E d \in DashboardIds : \E position \in InsertPositions(blocks, d) :
          TsCreateBlock(d, position)
    \/ \E d \in DashboardIds : TsGenerateBlock(d)
    \/ \E id \in BlockIds : \E position \in MovePositions(blocks, id) :
          TsUpdateBlock(id, position)
    \/ \E id \in BlockIds : \E position \in MovePositions(blocks, id) :
          TsPatchBlock(id, position)
    \/ \E id \in BlockIds : TsDeleteBlock(id)
    \/ \E d \in DashboardIds, blockOrder \in BlockOrders :
          TsReorderBlocks(d, blockOrder)

Spec == Init /\ [][Next]_vars

NextLegacy ==
    \/ \E d \in DashboardIds : \E position \in InsertPositions(blocks, d) :
          LegacyCreateBlock(d, position)
    \/ \E id \in BlockIds : \E position \in MovePositions(blocks, id) :
          LegacyUpdateBlock(id, position)
    \/ \E id \in BlockIds : LegacyDeleteBlock(id)
    \/ \E d \in DashboardIds, blockOrder \in BlockOrders :
          LegacyReorderBlocks(d, blockOrder)

SpecLegacy == Init /\ [][NextLegacy]_vars

NextConc ==
    \/ \E r \in Requests, d \in DashboardIds :
          \E position \in InsertPositions(blocks, d) : TsInsertBegin(r, d, position)
    \/ \E r \in Requests : TsInsertShift(r)
    \/ \E r \in Requests : TsInsertCreate(r)

SpecConc == Init /\ [][NextConc]_vars

\* the same requests, any of whose storage calls may reject
NextFail ==
    \/ \E r \in Requests, d \in DashboardIds :
          \E position \in InsertPositions(blocks, d) : TsInsertBegin(r, d, position)
    \/ \E r \in Requests : TsInsertShift(r)
    \/ \E r \in Requests : TsInsertCreate(r)
    \/ \E r \in Requests : TsInsertFail(r)

SpecFail == Init /\ [][NextFail]_vars

NextChat ==
    \/ \E prompt \in ChatPrompts, d \in DashboardIds, outcome \in GenerationOutcomes :
          \E conversationId \in {<<>>} \cup {<<c>> : c \in ConversationIds} :
             EpesiAgentChat(prompt, d, conversationId, outcome)

SpecChat == Init /\ [][NextChat]_vars

NextTurn ==
    \/ \E d \in Dashboards : TsCreateBlock(d, Undefined)
    \/ \E blockId \in BlockIds, question \in Prompts, chartData \in Charts :
          CreateBlockChatHistory(blockId, question, chartData)
    \/ \E blockId \in BlockIds, prompt \in Prompts, outcome \in GenerationOutcomes,
             chartConfig \in Charts :
          AIBlockGenerateChart(blockId, prompt, outcome, chartConfig)

SpecTurn == Init /\ [][NextTurn]_vars

\* A dashboard with one block that the Epesi Agent added, its content
\* {chartData: {type, data}}; the block is then asked for charts
InitConvert ==
    /\ \E chart \in ChartConfigs :
          blocks = CreateBlock(<<>>, 1, 1, 0, JsObject(<<<<"chartData", chart>>>>))
    /\ nextBlockId = 2
    /\ last = Response("none", 0, 0)
    /\ reqs = [r \in Requests |-> IdleRequest]
    /\ conversations = <<>>
    /\ messages = <<>>
    /\ chatHistory = <<>>
    /\ clock = 1
    /\ turn = [blockId |-> 0, prompt |-> "none", generated |-> FALSE,
               chartData |-> JsUndefined, ended |-> "none"]
    /\ payloads = <<>>
    /\ rendered = NothingRendered
    /\ completion = <<>>
    /\ reply = NoReply
    /\ modal = ModalClosed
    /\ agent = NoAnswer

NextConvert ==
    \/ \E blockId \in BlockIds, chartData \in ChartConfigs :
          CreateBlockChatHistory(blockId, "sales by region", chartData)
    \/ \E blockId \in BlockIds, i \in 1..MaxHistory : handleLoadFromHistory(blockId, i)
    \/ \E blockId \in BlockIds, prompt \in ConversionPrompts \cup {"sales by region"},
             outcome \in GenerationOutcomes, fresh \in ChartConfigs :
          AIBlockGenerateChart(blockId, prompt, outcome,
                               generateChart(prompt, recentHistory(blockId), fresh))

SpecConvert == InitConvert /\ [][NextConvert]_vars

\* the history of the block: turns are recorded, loaded into the block again
\* and deleted
NextHistory ==
    \/ \E blockId \in BlockIds, chartData \in Charts :
          CreateBlockChatHistory(blockId, "sales by region", chartData)
    \/ \E blockId \in BlockIds, i \in 1..MaxHistory : handleLoadFromHistory(blockId, i)
    \/ \E id \in HistoryIds : DeleteBlockChatHistory(id)

SpecHistory == InitConvert /\ [][NextHistory]_vars

\* the clients are handed any payloads and one of them draws them
InitRender ==
    /\ blocks = <<>>
    /\ nextBlockId = 1
    /\ last = Response("none", 0, 0)
    /\ reqs = [r \in Requests |-> IdleRequest]
    /\ conversations = <<>>
    /\ messages = <<>>
    /\ chatHistory = <<>>
    /\ clock = 1
    /\ turn = [blockId |-> 0, prompt |-> "none", generated |-> FALSE,
               chartData |-> JsUndefined, ended |-> "none"]
    /\ payloads \in [1..NumCharts -> ChartPayloads]
    /\ rendered = NothingRendered
    /\ completion = <<>>
    /\ reply = NoReply
    /\ modal = ModalClosed
    /\ agent = NoAnswer

NextRender ==
    \/ AIBlockRender
    \/ SmartInsightsRender
    \/ DashboardPreviewRender

SpecRender == InitRender /\ [][NextRender]_vars

\* the generation backend has answered with some completion; the endpoints
\* and the Smart Insights modal work on it
InitGateway ==
    /\ blocks = <<>>
    /\ nextBlockId = 1
    /\ last = Response("none", 0, 0)
    /\ reqs = [r \in Requests |-> IdleRequest]
    /\ conversations = <<>>
    /\ messages = <<>>
    /\ chatHistory = <<>>
    /\ clock = 1
    /\ turn = [blockId |-> 0, prompt |-> "none", generated |-> FALSE,
               chartData |-> JsUndefined, ended |-> "none"]
    /\ payloads = <<>>
    /\ rendered = NothingRendered
    /\ completion \in CompletionTexts
    /\ reply = NoReply
    /\ modal = ModalClosed
    /\ agent = NoAnswer

InsightCounts == 0..(MaxInsights + 1)

Syntheses == [1..MaxInsights -> SynthesisOutcomes]

NextGateway ==
    \/ \E d \in DashboardIds, blockId \in {0} \cup BlockIds : LegacyAi(d, blockId)
    \/ \E d \in DashboardIds, count \in InsightCounts :
          LegacyGenerateInsights(d, count)
    \/ \E d \in DashboardIds, count \in InsightCounts, synthesis \in Syntheses :
          TsGenerateInsights(d, count, synthesis)
    \/ \E d \in DashboardIds, count \in InsightCounts, synthesis \in Syntheses :
          generateInsightsMutation(d, count, synthesis)

SpecGateway == InitGateway /\ [][NextGateway]_vars

\* what a client may send as a chart: any JSON value
PostedCharts == {ChartConfig("bar", LabeledSeries(ChartLabels(1), <<JsNumber(100)>>)),
                 JsObject(<<>>)}

\* the backend has answered POST /ai with a chart configuration, with an
\* empty array, or with prose; blocks and their history rows are written
InitPersist ==
    /\ blocks = <<>>
    /\ nextBlockId = 1
    /\ last = Response("none", 0, 0)
    /\ reqs = [r \in Requests |-> IdleRequest]
    /\ conversations = <<>>
    /\ messages = <<>>
    /\ chatHistory = <<>>
    /\ clock = 1
    /\ turn = [blockId |-> 0, prompt |-> "none", generated |-> FALSE,
               chartData |-> JsUndefined, ended |-> "none"]
    /\ payloads = <<>>
    /\ rendered = NothingRendered
    /\ completion \in {<<ChartConfigText>>, ArrayText(<<>>), <<"Sorry">>}
    /\ reply = NoReply
    /\ modal = ModalClosed
    /\ agent = NoAnswer

NextPersist ==
    \/ \E d \in Dashboards, chart \in PostedCharts :
          TsCreateBlockContent(d, Undefined, JsObject(<<<<"chartData", chart>>>>))
    \/ \E blockId \in BlockIds, chartData \in PostedCharts :
          CreateBlockChatHistory(blockId, "sales by region", chartData)
    \/ \E d \in DashboardIds, blockId \in {0} \cup BlockIds : LegacyAi(d, blockId)

SpecPersist == InitPersist /\ [][NextPersist]_vars

----------------------------------------------------------------------------
(* Claims about the position engine *)

\* the block a create handler has just inserted
NewBlock == nextBlockId

\* C1: in every dashboard the positions of its blocks are exactly 0..N-1,
\* N the number of its blocks, no two blocks sharing a position.
C1_PositionsDense == \A d \in Dashboards : Dense(blocks, d)

\* C2: inserting at position P into a dashboard whose blocks occupy 0..N-1
\* moves every existing block with position >= P up by one and places the
\* new block at P.
C2_InsertShiftsRight ==
    [][\A d \in Dashboards : \A P \in 0..MaxPos :
          (/\ Dense(blocks, d)
           /\ P <= Cardinality(BlocksOf(blocks, d))
           /\ TsCreateDashboardBlock(d, <<P>>))
          => /\ NewBlock \in DOMAIN blocks'
             /\ blocks'[NewBlock].position = P
             /\ \A b \in BlocksOf(blocks, d) :
                   blocks'[b].position =
                       IF blocks[b].position >= P
                       THEN blocks[b].position + 1
                       ELSE blocks[b].position]_vars

\* C3: deleting a block removes it and moves every block of its dashboard
\* that was after it down by one.
C3_DeleteShiftsLeft ==
    [][\A id \in DOMAIN blocks :
          TsDeleteBlock(id)
          => /\ id \notin DOMAIN blocks'
             /\ \A b \in BlocksOf(blocks, blocks[id].dashboardId) \ {id} :
                   blocks'[b].position =
                       IF blocks[b].position > blocks[id].position
                       THEN blocks[b].position - 1
                       ELSE blocks[b].position]_vars

\* the ids of blockOrder are exactly the dashboard's blocks, each once
ExactOrder(B, d, blockOrder) ==
    /\ {blockOrder[i] : i \in 1..Len(blockOrder)} = BlocksOf(B, d)
    /\ Len(blockOrder) = Cardinality(BlocksOf(B, d))

\* C4: a reorder whose id list is not exactly the dashboard's block set is
\* answered with an error and changes no block's position.
C4_ReorderMismatchRejected ==
    [][\A d \in Dashboards : \A blockOrder \in BlockOrders :
          (~ExactOrder(blocks, d, blockOrder) /\ TsReorderBlocks(d, blockOrder))
          => /\ last'.status >= 400
             /\ \A b \in DOMAIN blocks : blocks'[b].position = blocks[b].position]_vars

\* C10: an insert that gives no position puts the new block at position N of
\* a dashboard of N blocks and changes no existing block's position.
C10_DefaultInsertAppends ==
    [][\A d \in Dashboards :
          (/\ Dense(blocks, d)
           /\ (TsCreateDashboardBlock(d, Undefined) \/ TsCreateBlock(d, Undefined)))
          => /\ blocks'[NewBlock].position = Cardinality(BlocksOf(blocks, d))
             /\ \A b \in DOMAIN blocks : blocks'[b].position = blocks[b].position]_vars

----------------------------------------------------------------------------
(* Claims about concurrent inserts *)

\* C5: two inserts on one dashboard that computed their position from a read
\* of the block list never leave their two new blocks at the same position.
C5_ConcurrentInsertsDistinct ==
    \A r1, r2 \in Requests :
        (/\ r1 # r2
         /\ reqs[r1].pc = "done" /\ reqs[r2].pc = "done"
         /\ reqs[r1].dashboardId = reqs[r2].dashboardId
         /\ reqs[r1].position = Undefined /\ reqs[r2].position = Undefined)
        => blocks[reqs[r1].id].position # blocks[reqs[r2].id].position

\* C6: while an insert is shifting and placing, with no other request
\* running beside it, a reader of the dashboard's block list (dense when the
\* insert began) still sees the positions 0..N-1, each once.
C6_InsertLooksAtomic ==
    \A r \in Requests :
        (InProgress(r) /\ reqs[r].alone /\ reqs[r].startedDense)
        => Dense(blocks, reqs[r].dashboardId)

----------------------------------------------------------------------------
(* Claims about generation turns and conversations *)

\* C7: when the generation call of a chat turn raises an error, the turn
\* has created no message, no block and no chat-history entry.
C7_FailedTurnPersistsNothing ==
    [][\A prompt \in Prompts, d \in Dashboards :
          \A conversationId \in {<<>>} \cup {<<c>> : c \in ConversationIds} :
             (~isGreeting(prompt) /\ EpesiAgentChat(prompt, d, conversationId, "error"))
             => /\ messages' = messages
                /\ blocks' = blocks
                /\ chatHistory' = chatHistory]_vars

HistoryRecorded(t) ==
    \E i \in DOMAIN chatHistory :
        /\ chatHistory[i].blockId = t.blockId
        /\ chatHistory[i].question = t.prompt
        /\ chatHistory[i].chartData = t.chartData

\* C8: a generation turn whose chart was generated ends with the chart in
\* the block and a chat-history entry for that prompt and chart recorded.
C8_SuccessfulTurnEndsHistoryRecorded ==
    turn.generated =>
        /\ turn.ended = "onSuccess"
        /\ HistoryRecorded(turn)

LatestMessageAt(c) ==
    LET mine == {i \in DOMAIN messages : messages[i].conversationId = c}
    IN  IF mine = {} THEN 0
        ELSE messages[CHOOSE i \in mine : \A j \in mine : j <= i].createdAt

\* C9: a conversation's updatedAt is never earlier than the creation time
\* of its latest message.
C9_UpdatedAtReflectsLatestMessage ==
    \A c \in DOMAIN conversations :
        conversations[c].updatedAt >= LatestMessageAt(c)

\* C11: a block added from the Epesi Agent or by AI block generation is
\* prepended: afterwards it is the only block at position 0 of its dashboard
\* and every block that was there before is one position further right.
C11_AiBlockPrepended ==
    [][\A d \in Dashboards :
          (/\ Dense(blocks, d)
           /\ addBlockMutation(d) \/ TsGenerateBlock(d))
          => /\ NewBlock \in DOMAIN blocks'
             /\ \A b \in BlocksOf(blocks', d) :
                   blocks'[b].position = 0 <=> b = NewBlock
             /\ \A b \in BlocksOf(blocks, d) :
                   blocks'[b].position = blocks[b].position + 1]_vars

\* C20: a new conversation's title is the first prompt verbatim when the
\* prompt has at most 50 characters, and otherwise the prompt's first 50
\* characters followed by "...".
C20_TitleDerivation ==
    [][\A prompt \in ChatPrompts, d \in Dashboards, outcome \in GenerationOutcomes :
          (agent'.prompt = prompt /\ EpesiAgentChat(prompt, d, <<>>, outcome))
          => LET id == Cardinality(DOMAIN conversations) + 1
                 newTitle == conversations'[id].title
             IN  /\ id \notin DOMAIN conversations
                 /\ IF Len(prompt) <= 50
                    THEN newTitle = prompt
                    ELSE /\ Len(newTitle) = 53
                         /\ \A i \in 1..50 : SubSeq(newTitle, i, i) = SubSeq(prompt, i, i)
                         /\ SubSeq(newTitle, 51, 53) = "..."]_vars

\* a conversation was opened by a prompt longer than the limit and another by
\* one of exactly the limit
C20_Witness ==
    \E c1, c2 \in DOMAIN conversations : \E i, j \in DOMAIN messages :
        /\ messages[i].conversationId = c1 /\ messages[i].role = "user"
        /\ Len(messages[i].content) > TitleLimit
        /\ Len(conversations[c1].title) = TitleLimit + 3
        /\ messages[j].conversationId = c2 /\ messages[j].role = "user"
        /\ Len(messages[j].content) = TitleLimit
        /\ conversations[c2].title = messages[j].content

\* the payload is {labels, datasets: [{data}]} over n labels
IsLabeled(payload, n, data) == payload = LabeledSeries(ChartLabels(n), data)

\* the payload is {xAxis: {categories}, series: [{data}]} over n labels
IsCategory(payload, n, data) == payload = CategorySeries(ChartLabels(n), data)

\* C12: a series holding a value that is no number (null, "N/A") comes out
\* with 0 in that entry, the numbers as they were, and as many entries as it
\* had labels; the chart drawn from it has them all too.
C12_NonNumericBecomesZero ==
    rendered.by # "none" =>
        \A k \in DOMAIN payloads : \A n \in 1..MaxSeries :
            \A data \in [1..n -> ChartValues] :
                (/\ IsLabeled(payloads[k], n, data) \/ IsCategory(payloads[k], n, data)
                 /\ \E i \in 1..n : Kind(data[i]) # "number")
                => \A series \in {rendered.data[k], rendered.chart[k]} :
                      /\ isArray(series)
                      /\ Len(series[2]) = n
                      /\ \A i \in 1..n :
                            Get(series[2][i], "value") =
                                IF Kind(data[i]) = "number" THEN data[i]
                                ELSE JsNumber(0)

\* C13: the labeled-series shape and the category/series shape of the same
\* labels and values come out as the same series, whichever component
\* converts them.
C13_ShapesReconcileAlike ==
    rendered.by # "none" =>
        \A j, k \in DOMAIN payloads : \A n \in 1..MaxSeries :
            \A data \in [1..n -> ChartValues] :
                (IsLabeled(payloads[j], n, data) /\ IsCategory(payloads[k], n, data))
                => rendered.data[j] = rendered.data[k]

\* the four shapes a payload may have: entries {name, value}; {labels,
\* datasets: [{data}]}; {xAxis: {categories}, series: [{data}]}; numbers
HasDataArray(list) ==
    /\ isArray(list) /\ Len(list[2]) > 0
    /\ Kind(list[2][1]) = "object"
    /\ isArray(Get(list[2][1], "data"))

RecognizedShape(payload) ==
    \/ /\ isArray(payload)
       /\ \A i \in DOMAIN payload[2] :
             /\ Kind(payload[2][i]) = "object"
             /\ HasProperty(payload[2][i], "name")
             /\ HasProperty(payload[2][i], "value")
    \/ /\ Kind(payload) = "object"
       /\ isArray(Get(payload, "labels"))
       /\ HasDataArray(Get(payload, "datasets"))
    \/ /\ Kind(payload) = "object"
       /\ isArray(OptGet(Get(payload, "xAxis"), "categories"))
       /\ HasDataArray(Get(payload, "series"))
    \/ /\ isArray(payload)
       /\ \A i \in DOMAIN payload[2] : Kind(payload[2][i]) = "number"

\* C15: a payload of none of the recognized shapes comes out as the empty
\* series, and converting it does not throw.
C15_UnrecognizedShapeIsEmpty ==
    rendered.by # "none" =>
        \A k \in DOMAIN payloads :
            ~RecognizedShape(payloads[k]) => rendered.data[k] = JsArray(<<>>)

\* C14: asking for an existing chart in another type (bar to pie) gives a
\* chart of that type whose series is the original's: same labels, same
\* values, same order.
C14_ConversionKeepsSeries ==
    [][\A blockId \in DOMAIN blocks, prompt \in ConversionPrompts,
          fresh \in ChartConfigs :
          LET original == Get(blocks[blockId].content, "chartData")
              result == Get(blocks'[blockId].content, "chartData")
          IN  (/\ Kind(original) = "object"
               /\ Get(original, "type") # JsString(targetType(prompt))
               /\ AIBlockGenerateChart(blockId, prompt, "ok",
                                       generateChart(prompt, recentHistory(blockId),
                                                     fresh)))
              => /\ Get(result, "type") = JsString(targetType(prompt))
                 /\ Get(result, "data") = Get(original, "data")]_vars

----------------------------------------------------------------------------
(* Claims about the generation gateway *)

\* the text of an array of n insights that have every required field
ValidInsightsText(n) == ArrayText([i \in 1..n |-> ValidInsightText])

\* the insights of a 200 reply
RepliedInsights(r) == Get(Get(r.body, "data"), "insights")[2]

\* a 200 reply that carries n insights, each with the chart payload the
\* backend produced, and reports n as their count
Delivered(r, n) ==
    /\ r.status = 200
    /\ Len(RepliedInsights(r)) = n
    /\ \A i \in 1..n :
          Get(RepliedInsights(r)[i], "chart_payload")
              = Get(ObjectLiteral(ValidInsightText), "chart_payload")
    /\ Get(r.body, "count") = JsNumber(n)

\* C16: when the backend's JSON comes wrapped in a markdown fence of the
\* form (fence)json ... (fence), every generation endpoint strips the fence
\* and parses the payload: it answers 200 with the payload that the bare
\* JSON denotes.
C16_FencedPayloadParsed ==
    [][\A d \in Dashboards :
          /\ \A body \in JsonBodies : \A blockId \in {0} \cup BlockIds :
                (completion = Fenced(body) /\ LegacyAi(d, blockId))
                => /\ reply'.status = 200
                   /\ Get(reply'.body, "data") = JSONparse(body)
          /\ \A n \in 0..MaxInsights : \A count \in InsightCounts :
                completion = Fenced(ValidInsightsText(n))
                => /\ LegacyGenerateInsights(d, count) => Delivered(reply', n)
                   /\ \A synthesis \in Syntheses :
                         TsGenerateInsights(d, count, synthesis)
                         => Delivered(reply', n)]_vars

\* C17: when the backend answers with fewer valid items than were asked
\* for, the request does not fail: the endpoint answers with exactly the
\* items produced and their number, and the modal shows those items and
\* tells the user how many there are.
C17_FewerItemsNotFatal ==
    [][\A d \in Dashboards : \A n \in 0..MaxInsights : \A count \in InsightCounts :
          (completion = ValidInsightsText(n) /\ n < clampCount(count))
          => /\ LegacyGenerateInsights(d, count) => Delivered(reply', n)
             /\ \A synthesis \in Syntheses :
                   /\ TsGenerateInsights(d, count, synthesis) => Delivered(reply', n)
                   /\ generateInsightsMutation(d, count, synthesis)
                      => /\ Delivered(reply', n)
                         /\ modal'.step = "results"
                         /\ Len(modal'.insights) = n
                         /\ modal'.toast
                               = "Generated " \o ToString(n) \o " smart insights"]_vars

\* the required fields of a chart: an object that names its chart type and
\* carries its data
RequiredFields(chart) ==
    /\ Kind(chart) = "object"
    /\ Truthy(Or(Get(chart, "type"), Get(chart, "chart")))
    /\ Truthy(Or(Get(chart, "data"), Get(chart, "series")))

\* C18: no chart is persisted from an unvalidated payload: the content of a
\* block is empty, or is, or holds as chartData, a chart that has the
\* required fields, and so has the chart of every chat-history row.
C18_NoUnvalidatedChartPersisted ==
    /\ \A id \in DOMAIN blocks :
          LET content == blocks[id].content
          IN  \/ content = NoContent
              \/ content = GeneratedContent
              \/ RequiredFields(content)
              \/ /\ Kind(content) = "object"
                 /\ RequiredFields(Get(content, "chartData"))
    /\ \A i \in DOMAIN chatHistory : RequiredFields(chatHistory[i].chartData)

----------------------------------------------------------------------------
(* Claims about the chat route's conversations *)

\* C21: a chat request whose conversationId names no conversation fails
\* with the not-found status and creates no conversation and no message.
C21_UnknownConversationNotFound ==
    [][\A prompt \in ChatPrompts, d \in Dashboards, outcome \in GenerationOutcomes :
          \A c \in ConversationIds \ DOMAIN conversations :
             (agent'.prompt = prompt /\ EpesiAgentChat(prompt, d, <<c>>, outcome))
             => /\ last'.status = 404
                /\ conversations' = conversations
                /\ messages' = messages]_vars

\* the route has answered "Conversation not found" while other conversations
\* and their messages exist
C21_Witness ==
    /\ agent.message = "Conversation not found"
    /\ last.status = 404
    /\ conversations # <<>>
    /\ messages # <<>>

\* the messages of conversation c, in the order of their creation
MessagesOf(M, c) == SelectSeq(M, LAMBDA message : message.conversationId = c)

\* C30: a chat request for dashboard D that names a conversation of another
\* dashboard adds no message to that conversation.
C30_NoMessageAcrossDashboards ==
    [][\A prompt \in ChatPrompts, d \in Dashboards, outcome \in GenerationOutcomes :
          \A c \in DOMAIN conversations :
             (/\ conversations[c].dashboardId # d
              /\ EpesiAgentChat(prompt, d, <<c>>, outcome))
             => MessagesOf(messages', c) = MessagesOf(messages, c)]_vars

\* C26: the messages of every conversation, in the order of their creation,
\* alternate user, assistant, user, assistant, ...
C26_RolesAlternate ==
    \A c \in DOMAIN conversations :
        LET mine == MessagesOf(messages, c)
        IN  \A i \in DOMAIN mine :
               mine[i].role = IF i % 2 = 1 THEN "user" ELSE "assistant"

\* a prompt that is a greeting phrase once the white space around it is
\* dropped and the case of its letters disregarded
ExactGreeting(prompt) == FoldCase(trimString(prompt)) \in GreetingPhrases

\* C29: for a prompt that is exactly a greeting phrase, the chat route does
\* not call the generation backend and answers with the canned reply and an
\* empty chart list.
C29_GreetingSkipsBackend ==
    (last.op = "EpesiAgentChat" /\ last.status # 404 /\ ExactGreeting(agent.prompt))
    => /\ last.status = 200
       /\ ~agent.called
       /\ agent.response = "greeting"
       /\ agent.charts = <<>>

\* the route has answered a greeting written in capitals with white space
\* around it, and has also answered a question with charts
C29_Witness ==
    /\ last.status = 200
    /\ ExactGreeting(agent.prompt)
    /\ agent.prompt \notin GreetingPhrases
    /\ agent.response = "greeting"
    /\ \E i \in DOMAIN messages : messages[i].content = "charts"

----------------------------------------------------------------------------
(* Claims about the block chat history *)

\* the rows of block b, oldest first
TurnsOf(b) == SelectSeq(chatHistory, LAMBDA row : row.blockId = b)

\* C25: the chat history sent with a chart-generation request for a block
\* is the block's most recent turns, at most 6 of them, most recent first.
C25_RecentHistoryMostRecentFirst ==
    \A b \in DOMAIN blocks :
        LET n == Len(TurnsOf(b))
            sent == recentHistory(b)
        IN  /\ Len(sent) = Min(n, 6)
            /\ \A i \in DOMAIN sent : sent[i] = TurnsOf(b)[n + 1 - i]

HistoryRowIds(H) == {H[i].id : i \in DOMAIN H}

----------------------------------------------------------------------------
(* Claims about moves, updates and failures of the position engine *)

\* C28: an update or a delete of a block id that has no row is answered as
\* not found, never as a success.
C28_MissingBlockNotFound ==
    [][\A id \in BlockIds \ DOMAIN blocks :
          /\ \A position \in {Undefined} \cup {<<p>> : p \in 0..MaxPos} :
                /\ TsUpdateBlock(id, position) => last'.status = 404
                /\ TsPatchBlock(id, position) => last'.status = 404
          /\ TsDeleteBlock(id) => last'.status = 404]_vars

\* C22: moving a block to a new position changes no block outside the range
\* between its old and its new position: moving down, the blocks in between
\* go one position up (position - 1); moving up, they go one position down
\* (position + 1); the moved block's old position takes no part in the shift.
C22_MoveShiftsIntermediateBlocks ==
    [][\A id \in DOMAIN blocks : \A newPosition \in 0..MaxPos :
          LET d == blocks[id].dashboardId
              oldPosition == blocks[id].position
          IN  (/\ Dense(blocks, d)
               /\ newPosition < Cardinality(BlocksOf(blocks, d))
               /\ TsUpdateBlock(id, <<newPosition>>))
              => /\ blocks'[id].position = newPosition
                 /\ \A b \in DOMAIN blocks \ {id} :
                       blocks'[b].position =
                           IF /\ blocks[b].dashboardId = d
                              /\ oldPosition < blocks[b].position
                              /\ blocks[b].position <= newPosition
                           THEN blocks[b].position - 1
                           ELSE IF /\ blocks[b].dashboardId = d
                                   /\ newPosition <= blocks[b].position
                                   /\ blocks[b].position < oldPosition
                           THEN blocks[b].position + 1
                           ELSE blocks[b].position]_vars

\* C24: a generic update of a block writes no position: after PATCH
\* /api/blocks/:id every block is at the position it had.
C24_GenericUpdateKeepsPosition ==
    [][\A id \in BlockIds : \A position \in {Undefined} \cup {<<p>> : p \in 0..MaxPos} :
          TsPatchBlock(id, position)
          => \A b \in DOMAIN blocks : blocks'[b].position = blocks[b].position]_vars

\* C23: when an insert fails partway, with no other request beside it, the
\* positions of its dashboard (dense when it began) are dense afterwards:
\* all of its position changes are applied or none is.
C23_FailedInsertLeavesDense ==
    [][\A r \in Requests :
          (TsInsertFail(r) /\ reqs[r].alone /\ reqs[r].startedDense)
          => Dense(blocks', reqs[r].dashboardId)]_vars

====
